---- MODULE Spec2Model ----
(***************************************************************************)
(* OnceDataset (mmdet3d/datasets/once_dataset.py): the ONCE dataset        *)
(* adapter.  The state is the dataset object (data_infos and its two       *)
(* flags) and the caller's list of detector outputs; the operations are    *)
(* the public methods get_ann_info, get_data_info, prepare_train_data,     *)
(* format_results and evaluate.                                            *)
(*                                                                         *)
(* Numbers.  Box parameters are reals in the code.  Here a length is an    *)
(* integer number of half units, and every height is an even number of     *)
(* them, so that h * 0.5 is exact.  A yaw angle is a pair <<r, q>> that    *)
(* stands for r + q * pi / 2: pi is irrational, so two such angles are     *)
(* equal exactly when the pairs are.  Arithmetic is exact (no rounding).   *)
(*                                                                         *)
(* Arrays.  A numpy array or a torch tensor of boxes is a sequence of      *)
(* rows, each row a 7-tuple <<x, y, z, dx, dy, dz, yaw>>.  An array is an  *)
(* object: where the code writes through an alias, the action writes the   *)
(* new rows back into every holder of that object.                         *)
(***************************************************************************)
EXTENDS Integers, Sequences, FiniteSets, TLC

VARIABLES
    data_infos,       \* self.data_infos: the frame records, as they are now
    loaded_infos,     \* history: data_infos as load_annotations returned it
    test_mode,        \* self.test_mode
    filter_empty_gt,  \* self.filter_empty_gt
    results,          \* the caller's list of detector outputs, as it is now
    detected,         \* history: that list as the detector returned it
    formats,          \* history: format_results/evaluate calls on that list
    ret               \* the last call: its arguments, outcome and effects

vars == <<data_infos, loaded_infos, test_mode, filter_empty_gt,
          results, detected, formats, ret>>

-----------------------------------------------------------------------------
(* Bounds of the model *)

MaxFrames == 2     \* frames in a dataset
MaxBoxes == 3      \* annotated objects in a frame
MaxTurns == 2      \* get_ann_info calls on one frame
MaxFormats == 2    \* format_results/evaluate calls on one results list

-----------------------------------------------------------------------------
(* Values *)

\* Python's None.
None == [none |-> TRUE]

IsNone(v) == v = None

CLASSES == <<"Car", "Bus", "Truck", "Pedestrain", "Cyclist">>

\* r + q * pi / 2
Yaw(r, q) == <<r, q>>

AddHalfPi(yaw, k) == <<yaw[1], yaw[2] + k>>

Box(x, y, z, dx, dy, dz, yaw) == <<x, y, z, dx, dy, dz, yaw>>

\* M @ v for a 3x3 matrix and a 3-vector.
MatVec(M, v) ==
    [i \in 1..3 |-> M[i][1] * v[1] + M[i][2] * v[2] + M[i][3] * v[3]]

\* the elements of a sequence
Range(s) == {s[i] : i \in 1..Len(s)}

\* row with its first three entries replaced by c
WithCenter(row, c) == [k \in 1..7 |-> IF k <= 3 THEN c[k] ELSE row[k]]

-----------------------------------------------------------------------------
(* The annotation file.  The objects a frame may hold, in the dataset's    *)
(* native convention (gravity centre, dimensions, yaw); "Barrier" is a     *)
(* name that is not in CLASSES.                                            *)

ObjectPool ==
    << [name |-> "Car",        box |-> Box( 8,  2,  0, 8, 4, 4, Yaw(0, 0))],
       [name |-> "Bus",        box |-> Box(-6,  4,  2, 20, 6, 6, Yaw(3, 0))],
       [name |-> "Truck",      box |-> Box( 0, -10, 1, 14, 6, 8, Yaw(-1, 0))],
       [name |-> "Pedestrain", box |-> Box(-3, -5, -1, 2, 2, 4, Yaw(2, 0))],
       [name |-> "Cyclist",    box |-> Box( 5,  0, -2, 4, 2, 4, Yaw(-2, 0))],
       [name |-> "Barrier",    box |-> Box( 1,  7,  3, 2, 6, 2, Yaw(1, 0))] >>

FrameIds == [k \in 1..(MaxFrames + 1) |-> 76 + 4 * k]

\* the j-th object of the frame at position k
ObjectAt(k, j) == ObjectPool[((MaxBoxes * (k - 1) + j - 1) % Len(ObjectPool)) + 1]

\* An annotated frame holds at least one object: frames whose box list is
\* empty are dropped when the info file is written.
Annos(k, n) ==
    [name     |-> [j \in 1..n |-> ObjectAt(k, j).name],
     boxes_3d |-> [j \in 1..n |-> ObjectAt(k, j).box]]

FrameHead(k) == [frame_id |-> FrameIds[k], sequence_id |-> 0, lidar_path |-> k]

AnnotatedFrame(k, n) ==
    [frame_id |-> FrameIds[k], sequence_id |-> 0, lidar_path |-> k,
     annos |-> Annos(k, n)]

\* the records the frame at position k may be
FrameSet(k) == {FrameHead(k), AnnotatedFrame(k, MaxBoxes)}

Datasets ==
    UNION {{infos \in [1..n -> UNION {FrameSet(k) : k \in 1..n}] :
                \A k \in 1..n : infos[k] \in FrameSet(k)} : n \in 1..MaxFrames}

-----------------------------------------------------------------------------
(* get_ann_info *)

Tr_lidar_to_standard == <<<<0, -1, 0>>, <<1, 0, 0>>, <<0, 0, 1>>>>

\* Lines 176-178, which write into the array they read: every centre is
\* replaced by Tr_lidar_to_standard @ centre and every yaw by yaw + pi/2.
RotateToStandard(boxes) ==
    [j \in 1..Len(boxes) |->
        LET row == WithCenter(boxes[j],
                              MatVec(Tr_lidar_to_standard,
                                     <<boxes[j][1], boxes[j][2], boxes[j][3]>>))
        IN  [row EXCEPT ![7] = AddHalfPi(row[7], 1)]]

\* LiDARInstance3DBoxes(array, origin=(0.5, 0.5, 0.5)): a new tensor that
\* stores the bottom centre, z - h/2.  convert_to(box_mode_3d) is the
\* identity for the default box_type_3d = 'LiDAR'.
LiDARInstance3DBoxes(boxes) ==
    [j \in 1..Len(boxes) |-> [boxes[j] EXCEPT ![3] = boxes[j][3] - boxes[j][6] \div 2]]

\* CLASSES.index(cat), 0-based
ClassIndex(cat) == (CHOOSE k \in 1..Len(CLASSES) : CLASSES[k] = cat) - 1

\* GtLabel counting the classes from 1
GtLabelFromOne(cat) ==
    IF \E k \in 1..Len(CLASSES) : CLASSES[k] = cat THEN ClassIndex(cat) + 1 ELSE -1

\* Lines 186-190.
GtLabel(cat) ==
    IF \E k \in 1..Len(CLASSES) : CLASSES[k] = cat THEN ClassIndex(cat) ELSE -1

\* get_ann_info(index) on the frame records infos (index from 1 here):
\* the value returned and the frame records after the call.
get_ann_info(infos, index) ==
    LET info == infos[index] IN
    IF "annos" \notin DOMAIN info
    THEN [value |-> None, infos |-> infos]
    ELSE
        LET annos == info.annos
            gt_bboxes_3d == RotateToStandard(annos.boxes_3d)
            gt_names == annos.name
            gt_labels == [j \in 1..Len(gt_names) |-> GtLabel(gt_names[j])]
        IN  [value |-> [gt_bboxes_3d |-> LiDARInstance3DBoxes(gt_bboxes_3d),
                        gt_labels_3d |-> gt_labels,
                        gt_labels    |-> gt_labels,
                        gt_names     |-> gt_names],
             \* gt_bboxes_3d is annos['boxes_3d'] itself
             infos |-> [infos EXCEPT ![index].annos.boxes_3d = gt_bboxes_3d]]

\* how many times the boxes of a frame have been rotated
Turns(info) ==
    IF "annos" \in DOMAIN info THEN info.annos.boxes_3d[1][7][2] ELSE 0

-----------------------------------------------------------------------------
(* get_data_info and prepare_train_data *)

camera_list == <<"cam01", "cam03", "cam05", "cam06", "cam07", "cam08", "cam09">>

\* get_data_info(index): the dict returned and the frame records after the
\* call.  A path is the tuple of its components.  lidar2img, which is
\* computed from the calibration alone, is left out.
get_data_info(infos, index, testing) ==
    LET info == infos[index]
        sample_idx == info.frame_id
        input_dict ==
            [sample_idx   |-> sample_idx,
             pts_filename |-> info.lidar_path,
             img_prefix   |-> None,
             img_filename |-> [c \in 1..Len(camera_list) |->
                 <<"data", info.sequence_id, camera_list[c], sample_idx>>]]
    IN  IF ~testing
        THEN LET a == get_ann_info(infos, index) IN
             [value |-> [sample_idx   |-> input_dict.sample_idx,
                         pts_filename |-> input_dict.pts_filename,
                         img_prefix   |-> input_dict.img_prefix,
                         img_filename |-> input_dict.img_filename,
                         ann_info     |-> a.value],
              infos |-> a.infos]
        ELSE [value |-> input_dict, infos |-> infos]

\* the sequence s restricted to the positions in keep, in order
RECURSIVE Select(_, _)
Select(s, keep) ==
    IF s = <<>> THEN <<>>
    ELSE LET rest == Select(SubSeq(s, 1, Len(s) - 1), keep) IN
         IF Len(s) \in keep THEN Append(rest, s[Len(s)]) ELSE rest

\* the objects a pipeline may keep: all, none, the first, those of a class,
\* those of no class
Keeps(labels) ==
    {1..Len(labels), {}, {1},
     {j \in 1..Len(labels) : labels[j] # -1},
     {j \in 1..Len(labels) : labels[j] = -1}}

\* self.pipeline is the framework's: it returns None, or an example whose
\* gt_labels_3d are the labels of the objects it kept.
PipelineOutputs(infos, index) ==
    LET labels == IF "annos" \in DOMAIN infos[index]
                  THEN get_ann_info(infos, index).value.gt_labels_3d
                  ELSE <<>>
    IN  {None} \cup {[gt_labels_3d |-> Select(labels, keep)] : keep \in Keeps(labels)}

\* ~(example['gt_labels_3d']._data != -1).any()
NoValidLabel(example) ==
    ~(\E j \in 1..Len(example.gt_labels_3d) : example.gt_labels_3d[j] # -1)

\* prepare_train_data(index), with example what self.pipeline returns when
\* it is run.
prepare_train_data(infos, index, testing, filtering, example) ==
    LET d == get_data_info(infos, index, testing)
        input_dict == d.value
    IN  IF "ann_info" \notin DOMAIN input_dict
        THEN \* input_dict['ann_info'] at line 213
             [raised |-> "KeyError", value |-> None, ran_pipeline |-> FALSE,
              infos |-> d.infos]
        ELSE IF IsNone(input_dict.ann_info)
        THEN [raised |-> "none", value |-> None, ran_pipeline |-> FALSE,
              infos |-> d.infos]
        ELSE IF filtering /\ (IsNone(example) \/ NoValidLabel(example))
        THEN [raised |-> "none", value |-> None, ran_pipeline |-> TRUE,
              infos |-> d.infos]
        ELSE [raised |-> "none", value |-> example, ran_pipeline |-> TRUE,
              infos |-> d.infos]

-----------------------------------------------------------------------------
(* _format_boxes_3d and _format_results *)

\* the rotation the other way round
Tr_standard_to_lidar_transposed == <<<<0, -1, 0>>, <<1, 0, 0>>, <<0, 0, 1>>>>

Tr_standard_to_lidar == <<<<0, 1, 0>>, <<-1, 0, 0>>, <<0, 0, 1>>>>

\* StandardToOnce without line 287: the bottom centre is kept
StandardToOnceNoLift(row) ==
    LET a == WithCenter(row, MatVec(Tr_standard_to_lidar,
                                    <<row[1], row[2], row[3]>>))
    IN  [a EXCEPT ![7] = AddHalfPi(a[7], -1)]

\* Lines 285-288 on one row of the array.
StandardToOnce(row) ==
    LET a == WithCenter(row, MatVec(Tr_standard_to_lidar,
                                    <<row[1], row[2], row[3]>>))
        b == [a EXCEPT ![3] = a[3] + a[6] \div 2]
    IN  [b EXCEPT ![7] = AddHalfPi(b[7], -1)]

\* _format_boxes_3d(boxes_3d).  boxes_3d.tensor.numpy() is the tensor's own
\* storage, so the array returned is also what the tensor holds afterwards.
\* With no rows the list of rotated centres is np.array([]), of shape (0,),
\* which line 285 cannot broadcast into the (0, 3) slice: ValueError.
_format_boxes_3d(boxes_3d) ==
    IF Len(boxes_3d) = 0
    THEN [raised |-> "ValueError", array |-> boxes_3d]
    ELSE [raised |-> "none",
          array  |-> [j \in 1..Len(boxes_3d) |-> StandardToOnce(boxes_3d[j])]]

\* seq[k] for a numpy array and a 0-based index k, negative k counting from
\* the end
NumpyIndex(seq, k) == IF k < 0 THEN seq[Len(seq) + k + 1] ELSE seq[k + 1]

\* Line 255.
PredName(label) == NumpyIndex(CLASSES, label - 1)

\* Lines 248-259: the record of one frame.
PredDict(info, result, pred_boxes) ==
    LET num_samples == Len(result.scores_3d) IN
    IF num_samples # 0
    THEN [name     |-> [j \in 1..num_samples |-> PredName(result.labels_3d[j])],
          score    |-> result.scores_3d,
          boxes_3d |-> pred_boxes,
          frame_id |-> info.frame_id]
    ELSE [name |-> <<>>, score |-> <<>>, boxes_3d |-> <<>>,
          frame_id |-> info.frame_id]

\* the least element of a non-empty set of integers
Min(S) == CHOOSE m \in S : \A n \in S : m <= n

\* The loop of lines 240-260, given boxes, what _format_boxes_3d does on
\* each result.  An iteration reads and writes its own result only, so the
\* loop is a map that stops at the first result on which _format_boxes_3d
\* raises: the records appended before that, and the results as the loop
\* leaves them.
FormatLoopOn(infos, items, boxes) ==
    LET failing == {i \in 1..Len(items) : boxes[i].raised # "none"}
        stop == IF failing = {} THEN Len(items) + 1 ELSE Min(failing)
    IN  [raised |-> IF failing = {} THEN "none" ELSE boxes[stop].raised,
         annos  |-> [i \in 1..(stop - 1) |->
                        PredDict(infos[i], items[i], boxes[i].array)],
         items  |-> [i \in 1..Len(items) |->
                        IF i < stop
                        THEN [items[i] EXCEPT !.boxes_3d = boxes[i].array]
                        ELSE items[i]]]

FormatLoop(infos, items) ==
    FormatLoopOn(infos, items,
                 [i \in 1..Len(items) |-> _format_boxes_3d(items[i].boxes_3d)])

\* osp.join(prefix, name)
Join(prefix, name) == [path |-> Append(prefix.path, name)]

\* Lines 262-267, after the loop: the record list is dumped to res_path
\* unless the loop raised.
DumpAnnos(loop, res_path) ==
    IF loop.raised # "none"
    THEN [raised |-> loop.raised, items |-> loop.items, trace |-> <<>>,
          res_path |-> None]
    ELSE [raised |-> "none", items |-> loop.items,
          trace |-> <<[ev |-> "dump", path |-> res_path, annos |-> loop.annos]>>,
          res_path |-> res_path]

\* _format_results(results, jsonfile_prefix): what is dumped where, and the
\* results afterwards.  format_results never passes a jsonfile_prefix of None.
_format_results(infos, items, jsonfile_prefix) ==
    DumpAnnos(FormatLoop(infos, items), Join(jsonfile_prefix, "results_once.json"))

-----------------------------------------------------------------------------
(* format_results and evaluate *)

\* tempfile.TemporaryDirectory()
TemporaryDirectory == [path |-> <<"tmp">>]

\* results[0] holds 'pts_bbox' or 'img_bbox'
IsKeyed(item) == "pts_bbox" \in DOMAIN item \/ "img_bbox" \in DOMAIN item

\* One iteration of the loop of lines 329-334: _format_results on the
\* results under the key name.
FormatKey(infos, items, name, jsonfile_prefix) ==
    _format_results(infos, [i \in 1..Len(items) |-> items[i][name]],
                    Join(jsonfile_prefix, name))

\* The loop of lines 329-334 over names, the keys of results[0] in their
\* order, given done, what _format_results does under each key.  The results
\* under one key are objects of their own, so the loop is a map over the
\* keys that stops at the first key under which _format_results raises.
FormatKeysOn(items, names, done) ==
    LET failing == {n \in 1..Len(names) : done[n].raised # "none"}
        stop == IF failing = {} THEN Len(names) + 1 ELSE Min(failing)
        position(name) == CHOOSE n \in 1..Len(names) : names[n] = name
    IN  [raised |-> IF failing = {} THEN "none" ELSE done[stop].raised,
         items  |-> [i \in 1..Len(items) |->
                        [name \in DOMAIN items[i] |->
                            IF name \in Range(names) /\ position(name) <= stop
                            THEN done[position(name)].items[i]
                            ELSE items[i][name]]],
         result_files |-> [name \in {names[n] : n \in 1..(stop - 1)} |->
                            done[position(name)].res_path],
         trace  |-> [n \in 1..(stop - 1) |-> done[n].trace[1]]]

FormatKeys(infos, items, names, jsonfile_prefix) ==
    FormatKeysOn(items, names,
                 [n \in 1..Len(names) |->
                     FormatKey(infos, items, names[n], jsonfile_prefix)])

\* _format_results' outcome f in the shape of FormatKeys', its result file
\* the path itself
AsFiles(f) ==
    [raised |-> f.raised, items |-> f.items, result_files |-> f.res_path,
     trace |-> f.trace]

\* the plain branch, line 325
FormatPlain(infos, items, jsonfile_prefix) ==
    AsFiles(_format_results(infos, items, jsonfile_prefix))

\* Line 335: what format_results returns once the files f are written (or
\* what it raised), with trace0 what happened before.
FormatReturn(f, tmp_dir, trace0) ==
    [raised |-> f.raised,
     value  |-> IF f.raised = "none"
                THEN [result_files |-> f.result_files, tmp_dir |-> tmp_dir]
                ELSE None,
     items  |-> f.items,
     trace  |-> trace0 \o f.trace]

\* format_results(results, jsonfile_prefix): res is the results object,
\* res.keys the keys of results[0] in their order when it is keyed.
format_results(infos, res, jsonfile_prefix) ==
    IF ~res.is_list \/ Len(res.items) # Len(infos)
    THEN [raised |-> "AssertionError", value |-> None, items |-> res.items,
          trace |-> <<>>]
    ELSE
        LET made == IsNone(jsonfile_prefix)
            tmp_dir == IF made THEN TemporaryDirectory ELSE None
            prefix == IF made THEN Join(TemporaryDirectory, "results")
                      ELSE jsonfile_prefix
            trace0 == IF made
                      THEN <<[ev |-> "mkdtemp", path |-> TemporaryDirectory]>>
                      ELSE <<>>
        IN  IF Len(res.items) = 0
            THEN \* results[0] at line 324
                 [raised |-> "IndexError", value |-> None, items |-> res.items,
                  trace |-> trace0]
            ELSE FormatReturn(IF ~IsKeyed(res.items[1])
                              THEN FormatPlain(infos, res.items, prefix)
                              ELSE FormatKeys(infos, res.items, res.keys, prefix),
                              tmp_dir, trace0)

\* float('{:.4f}'.format(ap)), an AP being a number of 1e-5 units here
Round4(ap) == ((ap + 5) \div 10) * 10

\* what once_eval, the framework's metric, may return: a mapping from metric
\* name to AP
MetricOutputs ==
    {[AP_Vehicle |-> 71234, mAP |-> 65438], [mAP |-> 12346]}

\* Lines 369-393, with f what format_results did and ap_dict_ what once_eval
\* returns at each call.
EvaluateFrom(infos, res, ap_dict_, f) ==
    IF f.raised # "none"
    THEN [raised |-> f.raised, value |-> None, items |-> f.items,
          trace |-> f.trace]
    ELSE IF \E i \in 1..Len(infos) : "annos" \notin DOMAIN infos[i]
    THEN \* info['annos'] at line 370
         [raised |-> "KeyError", value |-> None, items |-> f.items,
          trace |-> f.trace]
    ELSE
        LET result_files == f.value.result_files
            tmp_dir == f.value.tmp_dir
            gt_annos == [i \in 1..Len(infos) |-> infos[i].annos]
            is_dict == "path" \notin DOMAIN result_files
            calls == IF is_dict
                     THEN [n \in 1..Len(res.keys) |->
                             [ev |-> "once_eval", gt_annos |-> gt_annos,
                              dt_annos |-> result_files[res.keys[n]],
                              classes |-> CLASSES,
                              eval_types |-> <<"Overall&Distance">>]]
                     ELSE <<[ev |-> "once_eval", gt_annos |-> gt_annos,
                             dt_annos |-> result_files, classes |-> CLASSES,
                             eval_types |-> None]>>
            ap_dict == IF is_dict
                       THEN [key \in {<<res.keys[n], ap_type>> :
                                         n \in 1..Len(res.keys),
                                         ap_type \in DOMAIN ap_dict_} |->
                                Round4(ap_dict_[key[2]])]
                       ELSE ap_dict_
            cleanup == IF ~IsNone(tmp_dir)
                       THEN <<[ev |-> "cleanup", path |-> tmp_dir]>>
                       ELSE <<>>
        IN  [raised |-> "none", value |-> ap_dict, items |-> f.items,
             trace |-> f.trace \o calls \o cleanup]

\* evaluate(results, jsonfile_prefix=jsonfile_prefix)
evaluate(infos, res, jsonfile_prefix, ap_dict_) ==
    EvaluateFrom(infos, res, ap_dict_, format_results(infos, res, jsonfile_prefix))

-----------------------------------------------------------------------------
(* The detector, which is the caller's: what it may hand to format_results *)
(* and evaluate.                                                           *)

EmptyDet == [boxes_3d |-> <<>>, scores_3d |-> <<>>, labels_3d |-> <<>>]

\* some detections in the framework's convention (bottom centre)
SomeDet(k) ==
    [boxes_3d  |-> <<Box(3 * k, -1, -4, 8, 4, 4, Yaw(1, 0)),
                     Box(-2, 6 + k, 0, 2, 2, 4, Yaw(0, 1))>>,
     scores_3d |-> <<70, 30>>,
     labels_3d |-> <<k % Len(CLASSES), (k + 2) % Len(CLASSES)>>]

\* A detector that finds every object of a frame that has a class, where it
\* is, with the label get_ann_info gives it.
PerfectDet(info) ==
    LET gt == get_ann_info(<<info>>, 1).value
        keep == {j \in 1..Len(gt.gt_labels_3d) : gt.gt_labels_3d[j] # -1}
    IN  [boxes_3d  |-> Select(gt.gt_bboxes_3d, keep),
         scores_3d |-> [j \in 1..Cardinality(keep) |-> 90],
         labels_3d |-> Select(gt.gt_labels_3d, keep)]

\* the detections of frame i under key: none when i = empty
DetOf(infos, i, key, empty) ==
    IF i = empty THEN EmptyDet
    ELSE IF key # "img_bbox" /\ i <= Len(infos) /\ "annos" \in DOMAIN infos[i]
    THEN PerfectDet(infos[i])
    ELSE SomeDet(i)

KeyLayouts ==
    {<<>>, <<"pts_bbox">>, <<"img_bbox">>, <<"pts_bbox", "img_bbox">>}

Items(infos, len, keys, empty) ==
    [i \in 1..len |->
        IF keys = <<>> THEN DetOf(infos, i, "", empty)
        ELSE [key \in Range(keys) |-> DetOf(infos, i, key, empty)]]

\* What the detector may return for the frames infos, as they were loaded:
\* something that is not a list, a list of another length than the dataset,
\* or one result per frame, plain or keyed, with or without a frame that has
\* no detections.
DetectorOutputs(infos) ==
    {[is_list |-> FALSE, keys |-> <<>>, items |-> Items(infos, Len(infos), <<>>, 0)]}
    \cup
    {[is_list |-> TRUE, keys |-> <<>>, items |-> Items(infos, len, <<>>, 0)] :
        len \in {Len(infos) - 1, Len(infos) + 1}}
    \cup
    {[is_list |-> TRUE, keys |-> keys, items |-> Items(infos, Len(infos), keys, empty)] :
        keys \in KeyLayouts, empty \in 0..Len(infos)}

PrefixArgs == {None, [path |-> <<"work_dirs">>]}

-----------------------------------------------------------------------------
(* The state after construction, and the calls *)

NoResults == [is_list |-> FALSE, keys |-> <<>>, items |-> <<>>, none |-> TRUE]

Init ==
    /\ data_infos \in Datasets
    /\ loaded_infos = data_infos
    /\ test_mode \in BOOLEAN
    /\ filter_empty_gt \in BOOLEAN
    /\ results = NoResults
    /\ detected = NoResults
    /\ formats = 0
    /\ ret = [op |-> "__init__"]

GetAnnInfo(index) ==
    /\ Turns(data_infos[index]) < MaxTurns
    /\ LET r == get_ann_info(data_infos, index) IN
        /\ data_infos' = r.infos
        /\ ret' = [op |-> "get_ann_info", index |-> index, raised |-> "none",
                   value |-> r.value]
    /\ UNCHANGED <<loaded_infos, test_mode, filter_empty_gt, results, detected,
                   formats>>

GetDataInfo(index) ==
    /\ Turns(data_infos[index]) < MaxTurns
    /\ LET r == get_data_info(data_infos, index, test_mode) IN
        /\ data_infos' = r.infos
        /\ ret' = [op |-> "get_data_info", index |-> index, raised |-> "none",
                   value |-> r.value]
    /\ UNCHANGED <<loaded_infos, test_mode, filter_empty_gt, results, detected,
                   formats>>

PrepareTrainData(index) ==
    /\ Turns(data_infos[index]) < MaxTurns
    /\ \E example \in PipelineOutputs(data_infos, index) :
        LET r == prepare_train_data(data_infos, index, test_mode,
                                    filter_empty_gt, example) IN
        /\ data_infos' = r.infos
        /\ ret' = [op |-> "prepare_train_data", index |-> index,
                   raised |-> r.raised, ran_pipeline |-> r.ran_pipeline,
                   example |-> example, value |-> r.value]
    /\ UNCHANGED <<loaded_infos, test_mode, filter_empty_gt, results, detected,
                   formats>>

Detect ==
    /\ "none" \in DOMAIN results
    /\ results' \in DetectorOutputs(loaded_infos)
    /\ detected' = results'
    /\ formats' = 0
    /\ ret' = [op |-> "detect"]
    /\ UNCHANGED <<data_infos, loaded_infos, test_mode, filter_empty_gt>>

FormatResults(jsonfile_prefix) ==
    /\ "none" \notin DOMAIN results
    /\ formats < MaxFormats
    /\ \E r \in {format_results(data_infos, results, jsonfile_prefix)} :
        /\ results' = [results EXCEPT !.items = r.items]
        /\ ret' = [op |-> "format_results", results |-> results,
                   jsonfile_prefix |-> jsonfile_prefix, raised |-> r.raised,
                   value |-> r.value, trace |-> r.trace]
    /\ formats' = formats + 1
    /\ UNCHANGED <<data_infos, loaded_infos, test_mode, filter_empty_gt, detected>>

Evaluate(jsonfile_prefix) ==
    /\ "none" \notin DOMAIN results
    /\ formats < MaxFormats
    /\ \E ap_dict_ \in MetricOutputs :
        \E r \in {evaluate(data_infos, results, jsonfile_prefix, ap_dict_)} :
        /\ results' = [results EXCEPT !.items = r.items]
        /\ ret' = [op |-> "evaluate", results |-> results,
                   jsonfile_prefix |-> jsonfile_prefix, raised |-> r.raised,
                   ap_dict_ |-> ap_dict_, value |-> r.value, trace |-> r.trace]
    /\ formats' = formats + 1
    /\ UNCHANGED <<data_infos, loaded_infos, test_mode, filter_empty_gt, detected>>

\* the calls made when training
TrainNext ==
    \/ \E index \in 1..Len(data_infos) : GetAnnInfo(index)
    \/ \E index \in 1..Len(data_infos) : GetDataInfo(index)
    \/ \E index \in 1..Len(data_infos) : PrepareTrainData(index)

\* the calls made when evaluating a detector
EvalNext ==
    \/ Detect
    \/ \E jsonfile_prefix \in PrefixArgs : FormatResults(jsonfile_prefix)
    \/ \E jsonfile_prefix \in PrefixArgs : Evaluate(jsonfile_prefix)

Next == TrainNext \/ EvalNext

Spec == Init /\ [][Next]_vars

TrainSpec == Init /\ [][TrainNext]_vars

EvalSpec == Init /\ [][EvalNext]_vars

-----------------------------------------------------------------------------
(* What the last call was given and what it wrote *)

IsFormatCall == ret.op \in {"format_results", "evaluate"}

\* the record lists the last call dumped
Dumps == {e \in Range(ret.trace) : e.ev = "dump"}

\* the calls of the metric the last call made
MetricCalls == {e \in Range(ret.trace) : e.ev = "once_eval"}

\* the key a dumped file belongs to, <prefix>/<key>/results_once.json
KeyOf(e) == e.path.path[Len(e.path.path) - 1]

\* the i-th result behind the dump e, as it was when the call was made
Given(e, i) ==
    IF ret.results.keys = <<>> THEN ret.results.items[i]
    ELSE ret.results.items[i][KeyOf(e)]

\* the boxes of the annotation file, in the dataset's convention
NativeBoxes == {ObjectPool[n].box : n \in 1..Len(ObjectPool)}

\* b in the framework's convention, as get_ann_info converts it
ToFramework(b) == LiDARInstance3DBoxes(RotateToStandard(<<b>>))[1]

-----------------------------------------------------------------------------
(* Claims *)

\* C1: the ground-truth transform followed by the prediction transform is
\* the identity: whenever format_results or evaluate is given a predicted
\* box that is get_ann_info's conversion of a native box b (rotated centre,
\* yaw + pi/2, bottom centre z - h/2), the box it writes is b itself:
\* centre, dimensions and yaw.
C1_RoundTrip ==
    IsFormatCall =>
        \A e \in Dumps : \A i \in 1..Len(e.annos) :
            \A j \in 1..Len(e.annos[i].boxes_3d) : \A b \in NativeBoxes :
                Given(e, i).boxes_3d[j] = ToFramework(b)
                    => e.annos[i].boxes_3d[j] = b

\* C1 witness: a native box was converted, predicted and written back.
C1_Witness ==
    /\ ret.op = "format_results"
    /\ \E e \in Dumps : \E i \in 1..Len(e.annos) :
        \E j \in 1..Len(e.annos[i].boxes_3d) : \E b \in NativeBoxes :
            /\ Given(e, i).boxes_3d[j] = ToFramework(b)
            /\ e.annos[i].boxes_3d[j] = b
            /\ b[3] # ToFramework(b)[3]

\* C4: every predicted box <<x, y, z, dx, dy, h, r>> (bottom centre) is
\* written as <<y, -x, z + h/2, dx, dy, h, r - pi/2>>, one row per box in
\* the same order.
C4_PredictionTransform ==
    IsFormatCall =>
        \A e \in Dumps : \A i \in 1..Len(e.annos) :
            LET given == Given(e, i).boxes_3d
                out == e.annos[i].boxes_3d
            IN  /\ Len(out) = Len(given)
                /\ \A j \in 1..Len(given) :
                    /\ out[j][1] = given[j][2]
                    /\ out[j][2] = -given[j][1]
                    /\ 2 * out[j][3] = 2 * given[j][3] + given[j][6]
                    /\ out[j][4] = given[j][4]
                    /\ out[j][5] = given[j][5]
                    /\ out[j][6] = given[j][6]
                    /\ out[j][7] = <<given[j][7][1], given[j][7][2] - 1>>

\* C4 witness: a frame with several predicted boxes, off both axes, was
\* written.
C4_Witness ==
    /\ IsFormatCall
    /\ \E e \in Dumps : \E i \in 1..Len(e.annos) :
        /\ Len(e.annos[i].boxes_3d) >= 2
        /\ \E j \in 1..Len(e.annos[i].boxes_3d) :
            /\ Given(e, i).boxes_3d[j][1] # 0
            /\ Given(e, i).boxes_3d[j][2] # 0

\* C9: labels round-trip: a predicted box whose label is the label
\* get_ann_info gives to class name c is written under the name c.
C9_LabelRoundTrip ==
    IsFormatCall =>
        \A e \in Dumps : \A i \in 1..Len(e.annos) :
            \A j \in 1..Len(e.annos[i].name) : \A c \in Range(CLASSES) :
                Given(e, i).labels_3d[j] = GtLabel(c) => e.annos[i].name[j] = c

\* C10: format_results and evaluate leave the caller's results as they
\* were, so a second call on the same list writes what the first wrote.
C10_ResultsUnchanged ==
    IsFormatCall => results = ret.results

\* C2: frame records are never changed: the annotations in data_infos are
\* those that were loaded, and they are what evaluate hands to the metric.
C2_FrameRecordsImmutable ==
    /\ data_infos = loaded_infos
    /\ ret.op = "evaluate" =>
        \A c \in MetricCalls : \A i \in 1..Len(loaded_infos) :
            c.gt_annos[i] = loaded_infos[i].annos

\* C3: get_ann_info returns, for every box <<x, y, z, dx, dy, dz, r>> of the
\* frame's annotations, a box with gravity centre <<-y, x, z>>, the same
\* dimensions and yaw r + pi/2, in the same order.
C3_GroundTruthTransform ==
    (ret.op = "get_ann_info" /\ "annos" \in DOMAIN loaded_infos[ret.index]) =>
        LET native == loaded_infos[ret.index].annos.boxes_3d
            out == ret.value.gt_bboxes_3d
        IN  /\ Len(out) = Len(native)
            /\ \A j \in 1..Len(native) :
                /\ out[j][1] = -native[j][2]
                /\ out[j][2] = native[j][1]
                /\ 2 * out[j][3] + out[j][6] = 2 * native[j][3]
                /\ out[j][4] = native[j][4]
                /\ out[j][5] = native[j][5]
                /\ out[j][6] = native[j][6]
                /\ out[j][7] = <<native[j][7][1], native[j][7][2] + 1>>

\* the results the last call was given pass format_results' two checks
PassesChecks ==
    ret.results.is_list /\ Len(ret.results.items) = Len(data_infos)

\* C5: format_results raises AssertionError, before it makes a directory or
\* writes a file, when results is no list or has another length than the
\* dataset; otherwise it returns (result_files, tmp_dir), with tmp_dir None
\* exactly when a jsonfile_prefix was given.
C5_FormatResultsChecks ==
    ret.op = "format_results" =>
        /\ ~PassesChecks => ret.raised = "AssertionError" /\ ret.trace = <<>>
        /\ PassesChecks =>
            /\ ret.raised = "none"
            /\ IsNone(ret.value.tmp_dir) <=> ~IsNone(ret.jsonfile_prefix)

\* the prefix the last call wrote under
PrefixUsed ==
    IF IsNone(ret.jsonfile_prefix) THEN Join(TemporaryDirectory, "results")
    ELSE ret.jsonfile_prefix

\* the files the last call has to write
ExpectedFiles ==
    IF ret.results.keys = <<>> THEN {Join(PrefixUsed, "results_once.json")}
    ELSE {Join(Join(PrefixUsed, key), "results_once.json") :
            key \in Range(ret.results.keys)}

\* C6: given one result per frame, every file written holds one record per
\* frame, the i-th with the i-th frame's frame_id and the i-th result's
\* scores and boxes (empty arrays when that result has no detections), and
\* the i-th ground truth given to the metric is the i-th frame's annos.
C6_RecordsPerFrame ==
    (IsFormatCall /\ PassesChecks) =>
        /\ \A file \in ExpectedFiles : \E e \in Dumps : e.path = file
        /\ \A e \in Dumps :
            /\ Len(e.annos) = Len(data_infos)
            /\ \A i \in 1..Len(e.annos) :
                /\ e.annos[i].frame_id = data_infos[i].frame_id
                /\ IF Len(Given(e, i).scores_3d) = 0
                   THEN /\ e.annos[i].name = <<>>
                        /\ e.annos[i].score = <<>>
                        /\ e.annos[i].boxes_3d = <<>>
                   ELSE /\ e.annos[i].score = Given(e, i).scores_3d
                        /\ e.annos[i].boxes_3d =
                            [j \in 1..Len(Given(e, i).boxes_3d) |->
                                StandardToOnce(Given(e, i).boxes_3d[j])]
        /\ \A c \in MetricCalls :
            /\ Len(c.gt_annos) = Len(data_infos)
            /\ \A i \in 1..Len(data_infos) :
                /\ "annos" \in DOMAIN data_infos[i]
                /\ c.gt_annos[i] = data_infos[i].annos

\* the positions in the last call's trace of the events named ev
Events(ev) == {n \in 1..Len(ret.trace) : ret.trace[n].ev = ev}

\* C7: evaluate writes one file per key of results[0] (or the one file
\* when results are not keyed), calls the metric once per file, returns the
\* mapping (keys '<key>/<metric name>' when keyed, the metric's own mapping
\* otherwise), and removes a temporary directory it made after the last
\* call of the metric.
C7_Evaluate ==
    (ret.op = "evaluate" /\ PassesChecks) =>
        /\ ret.raised = "none"
        /\ {ret.trace[n].path : n \in Events("dump")} = ExpectedFiles
        /\ Cardinality(Events("dump")) = Cardinality(ExpectedFiles)
        /\ {ret.trace[n].dt_annos : n \in Events("once_eval")} = ExpectedFiles
        /\ Cardinality(Events("once_eval")) = Cardinality(ExpectedFiles)
        /\ IF ret.results.keys = <<>>
           THEN ret.value = ret.ap_dict_
           ELSE DOMAIN ret.value =
                    Range(ret.results.keys) \X (DOMAIN ret.ap_dict_)
        /\ IF IsNone(ret.jsonfile_prefix)
           THEN /\ Events("cleanup") = {Len(ret.trace)}
                /\ \A n \in Events("once_eval") : n < Len(ret.trace)
           ELSE Events("cleanup") = {} /\ Events("mkdtemp") = {}

\* the labels get_ann_info returned are the positions in CLASSES, from 0,
\* of the names, or -1
LabelsAreClassIndexes ==
    (ret.op = "get_ann_info" /\ ~IsNone(ret.value)) =>
        /\ Len(ret.value.gt_labels_3d) = Len(ret.value.gt_names)
        /\ \A j \in 1..Len(ret.value.gt_names) :
            \/ \E k \in 1..Len(CLASSES) :
                /\ CLASSES[k] = ret.value.gt_names[j]
                /\ ret.value.gt_labels_3d[j] = k - 1
            \/ /\ ret.value.gt_names[j] \notin Range(CLASSES)
               /\ ret.value.gt_labels_3d[j] = -1

\* get_data_info holds 'ann_info' exactly when test_mode is False, None for
\* a frame without annotations
AnnInfoWhenTraining ==
    ret.op = "get_data_info" =>
        /\ test_mode => "ann_info" \notin DOMAIN ret.value
        /\ ~test_mode =>
            /\ "ann_info" \in DOMAIN ret.value
            /\ "annos" \notin DOMAIN data_infos[ret.index]
                   => IsNone(ret.value.ann_info)

\* prepare_train_data returns None for a frame without annotations, without
\* running the pipeline; None when filter_empty_gt is set and the pipeline
\* returns None or no label other than -1; the pipeline's output otherwise
PrepareTrainDataReturns ==
    ret.op = "prepare_train_data" =>
        /\ ret.raised = "none"
        /\ IF "annos" \notin DOMAIN data_infos[ret.index]
           THEN IsNone(ret.value) /\ ~ret.ran_pipeline
           ELSE IF filter_empty_gt /\
                   (IsNone(ret.example) \/
                    \A j \in 1..Len(ret.example.gt_labels_3d) :
                        ret.example.gt_labels_3d[j] = -1)
           THEN IsNone(ret.value)
           ELSE ret.ran_pipeline /\ ret.value = ret.example

\* C8 as stated: the three properties above, whatever test_mode is.
C8_AsStated ==
    AnnInfoWhenTraining /\ LabelsAreClassIndexes /\ PrepareTrainDataReturns

\* C8, amended: what is said of prepare_train_data holds with test_mode
\* False; the rest holds as stated.
C8_TrainingData ==
    /\ AnnInfoWhenTraining
    /\ LabelsAreClassIndexes
    /\ ~test_mode => PrepareTrainDataReturns

\* C8 witness: with test_mode False and filter_empty_gt set, the pipeline
\* ran on an annotated frame, kept only objects of no class, and
\* prepare_train_data returned None.
C8_Witness ==
    /\ ret.op = "prepare_train_data"
    /\ ~test_mode
    /\ filter_empty_gt
    /\ ret.ran_pipeline
    /\ ~IsNone(ret.example)
    /\ Len(ret.example.gt_labels_3d) > 0
    /\ IsNone(ret.value)

====
